---- MODULE Spec2Model ----
(***************************************************************************)
(* PiREye: a PIR-triggered camera monitor (src/PiREye.py).                 *)
(*                                                                         *)
(* The script is one sequential program.  pc is its position; every action *)
(* is one blocking operation or one polling step of the script, together   *)
(* with the plain assignments and prints up to the next such operation.    *)
(* An exception raised by an operation is dispatched through the handlers  *)
(* that enclose it (call-site "except Exception", top-level "except        *)
(* Exception" / "except KeyboardInterrupt", "finally").  Ctrl+C is         *)
(* delivered while an operation is executing and makes that operation      *)
(* raise KeyboardInterrupt.                                                *)
(*                                                                         *)
(* Text is a sequence of one-character strings, so that strftime,          *)
(* str.replace and the path construction are computed character by         *)
(* character.  The wall clock `now` counts seconds since                   *)
(* 2021-01-01 00:00:00.                                                    *)
(***************************************************************************)
EXTENDS Integers, Sequences, FiniteSets, TLC

VARIABLES
    pc,             \* position in the script
    camera,         \* PiCamera handle: "open" | "closed"
    gpio,           \* GPIO pins: "setup" | "clean"
    armed,          \* the script's `armed`
    data,           \* the script's `data` (lower-cased answer)
    now,            \* wall clock, seconds since 2021-01-01 00:00:00
    armed_time,     \* the script's strings
    update_time,
    detection_time,
    annotate_text,  \* camera.annotate_text
    sequence,       \* the script's `sequence` (list of paths)
    disarmed_time,
    free,           \* disk_usage(DIRECTORY)[2] as read by the step just taken
    transport,      \* what the mail transport did in the step just taken
    pending,        \* exception still propagating when finally runs
    cause,          \* history: what ended the try block
    log,            \* history: the operations performed, in order
    polls,          \* history: number of GPIO.input reads
    ticks           \* history: clock advances outside the sleeps (a second
                    \* boundary, or a send_mail that ran into its timeout)

vars == <<pc, camera, gpio, armed, data, now, armed_time, update_time,
          detection_time, annotate_text, sequence, disarmed_time, free,
          transport, pending, cause, log, polls, ticks>>

(***************************************************************************)
(* Bounds of the model                                                     *)
(***************************************************************************)
\* reads of the PIR pin in one run
MaxPolls == 2
\* clock advances outside the sleeps in one run
MaxTicks == 1

(***************************************************************************)
(* Settings (src/PiREye.py, SETTINGS) and literals                         *)
(***************************************************************************)
DIRECTORY == <<"/", "m", "e", "d", "i", "a", "/", "p", "i", "/", "S", "T", "O", "R", "A", "G", "E">>

TIMES == << <<"0", "9", ":", "0", "0", ":", "0", "0">>,
            <<"2", "1", ":", "0", "0", ":", "0", "0">> >>

BurstSize == 5

PreviewSeconds == 15

ArmingSeconds == 60

WarmupSeconds == 2

RetriggerSeconds == 1

Digits == <<"0", "1", "2", "3", "4", "5", "6", "7", "8", "9">>

\* str(n) for a one-digit n
Str(n) == <<Digits[n + 1]>>

\* "%02d"
D2(n) == <<Digits[((n \div 10) % 10) + 1], Digits[(n % 10) + 1]>>

\* strftime("%H:%M:%S")
StrfHMS(t) ==
    D2((t % 86400) \div 3600) \o <<":">> \o D2((t % 3600) \div 60)
        \o <<":">> \o D2(t % 60)

\* strftime("%Y-%m-%d"); the clock stays within January 2021
StrfYMD(t) == <<"2", "0", "2", "1", "-", "0", "1", "-">> \o D2((t \div 86400) + 1)

\* strftime(prefix + "%Y-%m-%d %H:%M:%S")
Strftime(prefix, t) == prefix \o StrfYMD(t) \o <<" ">> \o StrfHMS(t)

\* s.replace(a, b) for one-character a and b
Replace(s, a, b) == [i \in DOMAIN s |-> IF s[i] = a THEN b ELSE s[i]]

\* x in list
In(x, list) == \E i \in DOMAIN list : list[i] = x

\* str.lower() on the answers the operator may type
Lower(s) == IF s = "Y" THEN "y" ELSE IF s = "N" THEN "n" ELSE s

out_directory == DIRECTORY \o <<"/", "D", "e", "t", "e", "c", "t", "i", "o", "n", "s", "/">>

\* variant: the index is not shifted to start at 1
BuildSequenceZeroBased(dir, stamp) ==
    [i \in 1..BurstSize |->
        dir \o Replace(stamp, ":", "-") \o <<"_">> \o Str(i - 1)
            \o <<".", "j", "p", "g">>]

\* [out_directory + detection_time.replace(":", "-") + "_" + str(i+1) + ".jpg"
\*  for i in range(5)]
BuildSequence(dir, stamp) ==
    [i \in 1..BurstSize |->
        dir \o Replace(stamp, ":", "-") \o <<"_">> \o Str((i - 1) + 1)
            \o <<".", "j", "p", "g">>]


(***************************************************************************)
(* Exceptions and their handlers                                           *)
(***************************************************************************)
\* the classes that derive from Exception; KeyboardInterrupt does not
IsException(e) ==
    e \in {"Exception", "OSError", "timeout", "SSLError",
           "SMTPAuthenticationError", "PiCameraError"}

\* variant: a bare "except:" at the call site
CallSiteCatchesAll(e) == TRUE

\* variant: the call sites catch only the SMTP errors
CallSiteCatchesSMTPOnly(e) == e = "SMTPAuthenticationError"

\* "except Exception: pass" around each send_mail call
CallSiteCatches(e) == IsException(e)

\* "except Exception: pass / except KeyboardInterrupt: pass" of the main try
TopLevelCatches(e) == IsException(e) \/ e = "KeyboardInterrupt"

\* what the network and the files can do to one send_mail call
TransportOutcomes(files) ==
    {"sent", "unreachable", "timeout", "tls", "login", "interrupt"}
        \cup (IF files # <<>> THEN {"attachment"} ELSE {})

\* smtplib.SMTP(server, port, timeout = 15)
SmtpTimeout == 15

\* seconds one send_mail call is known to block: a timed-out session
\* returns only after the timeout has run out
Elapsed(t) == IF t = "timeout" THEN SmtpTimeout ELSE 0

\* send_mail: "return", or the class of the exception it raises.  The
\* attachments are read first, then the SMTP session is opened, upgraded
\* to TLS and logged in.
send_mail(subject, body, files, t) ==
    IF files # <<>> /\ t = "attachment" THEN "OSError"
    ELSE IF t = "interrupt" THEN "KeyboardInterrupt"
    ELSE IF t = "unreachable" THEN "OSError"
    ELSE IF t = "timeout" THEN "timeout"
    ELSE IF t = "tls" THEN "SSLError"
    ELSE IF t = "login" THEN "SMTPAuthenticationError"
    ELSE "return"

(***************************************************************************)
(* Free space                                                              *)
(***************************************************************************)
\* A byte count is <<hi, lo>> = hi * 100000 + lo, 0 <= lo < 100000.
Limb == 100000

GigaLimbs == 10000      \* 1000000000 = GigaLimbs * Limb

CutoffGB == 5

\* x / 1000000000 as <<whole part, remainder in bytes>>: the quotient of
\* Python's true division is whole + remainder/10^9, and a remainder of
\* one byte is far above the spacing of floats near 5
TrueDivGiga(x) == <<x[1] \div GigaLimbs, (x[1] % GigaLimbs) * Limb + x[2]>>

\* variant: floor division, disk_usage(DIRECTORY)[2]//1000000000 <= 5
LowFreeSpaceFloorDiv(x) == TrueDivGiga(x)[1] <= CutoffGB

\* disk_usage(DIRECTORY)[2]/1000000000 <= 5
LowFreeSpace(x) ==
    LET q == TrueDivGiga(x)
    IN  q[1] < CutoffGB \/ (q[1] = CutoffGB /\ q[2] = 0)

\* free-space readings around the cutoff
FreeSamples ==
    { <<49999, 99999>>, <<50000, 0>>, <<50000, 1>>, <<60000, 0>> }

(***************************************************************************)
(* History                                                                 *)
(***************************************************************************)
Ev(op, kind, text, files, at) ==
    [op |-> op, kind |-> kind, text |-> text, files |-> files, at |-> at]

Note(op, kind) == Ev(op, kind, <<>>, <<>>, 0)

\* free and transport hold a value only in the state that follows the read
\* or the send
NoReading == <<>>

\* clock readings at which a run may start: so that the arming delay ends
\* just before or at a TIMES entry
StartTimes == {32400 - 78, 32400 - 77, 75600 - 77}

Init ==
    /\ pc = "warmup"
    /\ camera = "open"
    /\ gpio = "setup"
    /\ armed = FALSE
    /\ data = ""
    /\ now \in StartTimes
    /\ armed_time = <<>>
    /\ update_time = <<>>
    /\ detection_time = <<>>
    /\ annotate_text = <<>>
    /\ sequence = <<>>
    /\ disarmed_time = <<>>
    /\ free = NoReading
    /\ transport = "none"
    /\ pending = "none"
    /\ cause = "none"
    /\ log = <<>>
    /\ polls = 0
    /\ ticks = 0

\* an exception e leaves the body of the main try block: an except clause
\* that matches swallows it, and the finally block runs in either case
Unwind(e, why) ==
    /\ cause' = why
    /\ pending' = IF TopLevelCatches(e) THEN "none" ELSE e
    /\ pc' = "finally"

\* the step stays inside the try block
Continue(next) ==
    /\ pc' = next
    /\ cause' = cause
    /\ pending' = pending

\* time.sleep(2) after the camera is created, before the try block
Warmup ==
    /\ pc = "warmup"
    /\ \E o \in {"done", "interrupt"} :
        IF o = "done"
        THEN /\ now' = now + WarmupSeconds
             /\ pc' = "wifi_check"
             /\ pending' = pending
        ELSE /\ pc' = "uncaught"
             /\ pending' = "KeyboardInterrupt"
             /\ now' = now
    /\ free' = NoReading
    /\ transport' = "none"
    /\ UNCHANGED <<camera, gpio, armed, data, armed_time, update_time,
                   detection_time, annotate_text, sequence, disarmed_time,
                   cause, log, polls, ticks>>

\* armed = False; the ifconfig check
WifiCheck ==
    /\ pc = "wifi_check"
    /\ armed' = FALSE
    /\ \E o \in {"down", "up", "interrupt"} :
        /\ log' = Append(log, Note("wifi_check", o))
        /\ IF o = "down" THEN Continue("datetime_check")
           ELSE IF o = "up" THEN Unwind("Exception", "wifi")
           ELSE Unwind("KeyboardInterrupt", "interrupt")
    /\ free' = NoReading
    /\ transport' = "none"
    /\ UNCHANGED <<camera, gpio, data, now, armed_time, update_time,
                   detection_time, annotate_text, sequence, disarmed_time,
                   polls, ticks>>

\* variant: the answer is compared with a word the prompt never yields
ClockRejectedNever(d) == d = "no"

\* if data == "n"
ClockRejected(d) == d = "n"

Answers == {"y", "Y", "n", "N", "x"}

\* one round of the "Is ... correct?" prompt, and the test that follows the
\* loop when the answer is valid
DatetimeCheck ==
    /\ pc = "datetime_check"
    /\ \/ \E raw \in Answers :
            /\ data' = Lower(raw)
            /\ IF data' \notin {"y", "n"}
               THEN /\ log' = log
                    /\ Continue("datetime_check")
               ELSE /\ log' = Append(log, Note("prompt", data'))
                    /\ IF ClockRejected(data')
                       THEN Unwind("Exception", "clock")
                       ELSE Continue("preview")
       \/ /\ Unwind("KeyboardInterrupt", "interrupt")
          /\ UNCHANGED <<data, log>>
    /\ free' = NoReading
    /\ transport' = "none"
    /\ UNCHANGED <<camera, gpio, armed, now, armed_time, update_time,
                   detection_time, annotate_text, sequence, disarmed_time,
                   polls, ticks>>

\* mkdir of the output directory and the 15 s preview
Preview ==
    /\ pc = "preview"
    /\ \E o \in {"done", "interrupt"} :
        IF o = "done"
        THEN /\ annotate_text' =
                <<"P", "r", "e", "v", "i", "e", "w", " ", "(", "1", "5", " ", "s", "e", "c", "o", "n", "d", "s", ")">>
             /\ now' = now + PreviewSeconds
             /\ log' = Append(log, Note("preview", "done"))
             /\ Continue("arming_delay")
        ELSE /\ Unwind("KeyboardInterrupt", "interrupt")
             /\ UNCHANGED <<annotate_text, now, log>>
    /\ free' = NoReading
    /\ transport' = "none"
    /\ UNCHANGED <<camera, gpio, armed, data, armed_time, update_time,
                   detection_time, sequence, disarmed_time, polls,
                   ticks>>

\* variant: monitoring starts without the armed notification
ActivationSkipsPing ==
    /\ pc = "arming_delay"
    /\ \E o \in {"done", "interrupt"} :
        IF o = "done"
        THEN /\ now' = now + ArmingSeconds
             /\ armed' = TRUE
             /\ armed_time' = Strftime(<<"*", "*", "*", " ", "A", "R", "M", "E", "D", " ", "*", "*", "*", " ">>, now')
             /\ log' = Append(log, Note("arming_delay", "done"))
             /\ Continue("schedule_check")
        ELSE /\ Unwind("KeyboardInterrupt", "interrupt")
             /\ UNCHANGED <<now, armed, armed_time, log>>
    /\ free' = NoReading
    /\ transport' = "none"
    /\ UNCHANGED <<camera, gpio, data, update_time, detection_time,
                   annotate_text, sequence, disarmed_time, polls,
                   ticks>>

\* time.sleep(60); armed = True; armed_time = ...
Activation ==
    /\ pc = "arming_delay"
    /\ \E o \in {"done", "interrupt"} :
        IF o = "done"
        THEN /\ now' = now + ArmingSeconds
             /\ armed' = TRUE
             /\ armed_time' = Strftime(<<"*", "*", "*", " ", "A", "R", "M", "E", "D", " ", "*", "*", "*", " ">>, now')
             /\ log' = Append(log, Note("arming_delay", "done"))
             /\ Continue("armed_send")
        ELSE /\ Unwind("KeyboardInterrupt", "interrupt")
             /\ UNCHANGED <<now, armed, armed_time, log>>
    /\ free' = NoReading
    /\ transport' = "none"
    /\ UNCHANGED <<camera, gpio, data, update_time, detection_time,
                   annotate_text, sequence, disarmed_time, polls,
                   ticks>>

\* try: send_mail(...) except Exception: pass, inside the main try block
SendSite(kind, subject, files, next) ==
    \E t \in TransportOutcomes(files) :
        LET r == send_mail(subject, subject, files, t)
        IN  /\ Elapsed(t) > 0 => ticks < MaxTicks
            /\ ticks' = IF Elapsed(t) > 0 THEN ticks + 1 ELSE ticks
            /\ transport' = t
            /\ now' = now + Elapsed(t)
            /\ log' = Append(log, Ev("mail", kind, subject, files, 0))
            /\ IF r = "return" \/ CallSiteCatches(r)
               THEN Continue(next)
               ELSE Unwind(r, IF r = "KeyboardInterrupt" THEN "interrupt"
                                                         ELSE "mail")

\* the armed notification
ArmedSend ==
    /\ pc = "armed_send"
    /\ SendSite("armed", armed_time, <<>>, "schedule_check")
    /\ free' = NoReading
    /\ UNCHANGED <<camera, gpio, armed, data, armed_time, update_time,
                   detection_time, annotate_text, sequence, disarmed_time,
                   polls>>


\* time passes while the script is running
Tick ==
    /\ pc \notin {"exit", "uncaught"}
    /\ ticks < MaxTicks
    /\ ticks' = ticks + 1
    /\ now' = now + 1
    /\ UNCHANGED <<pc, camera, gpio, armed, data, armed_time, update_time,
                   detection_time, annotate_text, sequence, disarmed_time,
                   free, transport, pending, cause, log, polls>>

\* variant: a schedule entry missed during the last send is made up for
MatchesWithCatchUp(t) ==
    \E d \in 0..SmtpTimeout : t - d >= 0 /\ In(StrfHMS(t - d), TIMES)

\* datetime.now().strftime("%H:%M:%S") in TIMES
Matches(t) == In(StrfHMS(t), TIMES)

\* top of "while True": if datetime.now().strftime("%H:%M:%S") in TIMES
ScheduleCheck ==
    /\ pc = "schedule_check"
    /\ \/ /\ polls < MaxPolls
          /\ IF Matches(now)
             THEN /\ update_time' = Strftime(<<"A", "c", "t", "i", "v", "e", " ">>, now)
                  /\ log' = Append(log, Ev("schedule_check", "match", StrfHMS(now), <<>>, now))
                  /\ Continue("retrigger_sleep")
             ELSE /\ update_time' = update_time
                  /\ log' = Append(log, Ev("schedule_check", "no", StrfHMS(now), <<>>, now))
                  /\ Continue("pir_poll")
       \/ /\ Unwind("KeyboardInterrupt", "interrupt")
          /\ UNCHANGED <<update_time, log>>
    /\ free' = NoReading
    /\ transport' = "none"
    /\ UNCHANGED <<camera, gpio, armed, data, now, armed_time,
                   detection_time, annotate_text, sequence, disarmed_time,
                   polls, ticks>>

\* variant: no sleep after a match
SleepRetriggerNone(t) == t

\* time.sleep(1) # Prevent retriggering
SleepRetrigger(t) == t + RetriggerSeconds

RetriggerSleep ==
    /\ pc = "retrigger_sleep"
    /\ \E o \in {"done", "interrupt"} :
        IF o = "done"
        THEN /\ now' = SleepRetrigger(now)
             /\ log' = Append(log, Note("sleep", "retrigger"))
             /\ Continue("status_send")
        ELSE /\ Unwind("KeyboardInterrupt", "interrupt")
             /\ UNCHANGED <<now, log>>
    /\ free' = NoReading
    /\ transport' = "none"
    /\ UNCHANGED <<camera, gpio, armed, data, armed_time, update_time,
                   detection_time, annotate_text, sequence, disarmed_time,
                   polls, ticks>>

\* the scheduled status notification
StatusSend ==
    /\ pc = "status_send"
    /\ SendSite("status", update_time, <<>>, "pir_poll")
    /\ free' = NoReading
    /\ UNCHANGED <<camera, gpio, armed, data, armed_time, update_time,
                   detection_time, annotate_text, sequence, disarmed_time,
                   polls>>

\* variant: only a change from 0 to 1 starts a detection
TriggersOnRisingEdge(level) ==
    /\ level = 1
    /\ \A i \in DOMAIN log :
            (log[i].op = "poll" /\ \A j \in DOMAIN log : j > i => log[j].op # "poll")
                => log[i].kind # "active"

\* GPIO.input(GPIO_PIR) == 1
Triggers(level) == level = 1

\* variant: the free space is read in every iteration of the outer loop
PirPollReadsSpace ==
    /\ pc = "pir_poll"
    /\ \/ /\ polls < MaxPolls
          /\ \E level \in {0, 1} :
                /\ polls' = polls + 1
                /\ IF Triggers(level)
                   THEN /\ detection_time' =
                            Strftime(<<"D", "e", "t", "e", "c", "t", "i", "o", "n", " ">>, now)
                        /\ log' = Append(log, Ev("poll", "active", <<>>, <<>>, now))
                        /\ Continue("capture")
                   ELSE /\ detection_time' = detection_time
                        /\ log' = Append(log, Ev("poll", IF level = 1 THEN "active"
                                                                  ELSE "inactive",
                                                 <<>>, <<>>, now))
                        /\ Continue("space_check")
       \/ /\ Unwind("KeyboardInterrupt", "interrupt")
          /\ UNCHANGED <<polls, detection_time, log>>
    /\ free' = NoReading
    /\ transport' = "none"
    /\ UNCHANGED <<camera, gpio, armed, data, now, armed_time, update_time,
                   annotate_text, sequence, disarmed_time, ticks>>

\* while GPIO.input(GPIO_PIR) == 1: detection_time = ...
PirPoll ==
    /\ pc = "pir_poll"
    /\ \/ /\ polls < MaxPolls
          /\ \E level \in {0, 1} :
                /\ polls' = polls + 1
                /\ IF Triggers(level)
                   THEN /\ detection_time' =
                            Strftime(<<"D", "e", "t", "e", "c", "t", "i", "o", "n", " ">>, now)
                        /\ log' = Append(log, Ev("poll", "active", <<>>, <<>>, now))
                        /\ Continue("capture")
                   ELSE /\ detection_time' = detection_time
                        /\ log' = Append(log, Ev("poll", IF level = 1 THEN "active"
                                                                  ELSE "inactive",
                                                 <<>>, <<>>, now))
                        /\ Continue("schedule_check")
       \/ /\ Unwind("KeyboardInterrupt", "interrupt")
          /\ UNCHANGED <<polls, detection_time, log>>
    /\ free' = NoReading
    /\ transport' = "none"
    /\ UNCHANGED <<camera, gpio, armed, data, now, armed_time, update_time,
                   annotate_text, sequence, disarmed_time, ticks>>

\* variant: a capture error is swallowed like a mail error
CaptureSwallowsError ==
    /\ pc = "capture"
    /\ annotate_text' = detection_time
    /\ sequence' = BuildSequence(out_directory, detection_time)
    /\ \/ /\ log' = Append(log, Ev("capture", "ok", annotate_text', sequence', now))
          /\ Continue("detection_send")
       \/ \E k \in {0, BurstSize - 1} : \E e \in {"PiCameraError", "KeyboardInterrupt"} :
            /\ log' = Append(log, Ev("capture",
                                     IF e = "KeyboardInterrupt" THEN "interrupted"
                                                                ELSE "raised",
                                     annotate_text', SubSeq(sequence', 1, k), now))
            /\ IF e = "KeyboardInterrupt" THEN Unwind(e, "interrupt")
                                         ELSE Continue("detection_send")
    /\ free' = NoReading
    /\ transport' = "none"
    /\ UNCHANGED <<camera, gpio, armed, data, now, armed_time, update_time,
                   detection_time, disarmed_time, polls, ticks>>

\* camera.annotate_text = detection_time; sequence = [...];
\* camera.capture_sequence(sequence).  A capture that raises may already
\* have written the first k files.
Capture ==
    /\ pc = "capture"
    /\ annotate_text' = detection_time
    /\ sequence' = BuildSequence(out_directory, detection_time)
    /\ \/ /\ log' = Append(log, Ev("capture", "ok", annotate_text', sequence', now))
          /\ Continue("detection_send")
       \/ \E k \in {0, BurstSize - 1} : \E e \in {"PiCameraError", "KeyboardInterrupt"} :
            /\ log' = Append(log, Ev("capture",
                                     IF e = "KeyboardInterrupt" THEN "interrupted"
                                                                ELSE "raised",
                                     annotate_text', SubSeq(sequence', 1, k), now))
            /\ Unwind(e, IF e = "KeyboardInterrupt" THEN "interrupt" ELSE "capture")
    /\ free' = NoReading
    /\ transport' = "none"
    /\ UNCHANGED <<camera, gpio, armed, data, now, armed_time, update_time,
                   detection_time, disarmed_time, polls, ticks>>

\* variant: the sensor is read again right after the mail
DetectionSendThenPoll ==
    /\ pc = "detection_send"
    /\ SendSite("detection", detection_time, sequence, "pir_poll")
    /\ free' = NoReading
    /\ UNCHANGED <<camera, gpio, armed, data, armed_time, update_time,
                   detection_time, annotate_text, sequence, disarmed_time,
                   polls>>

\* the detection notification, with the burst attached
DetectionSend ==
    /\ pc = "detection_send"
    /\ SendSite("detection", detection_time, sequence, "space_check")
    /\ free' = NoReading
    /\ UNCHANGED <<camera, gpio, armed, data, armed_time, update_time,
                   detection_time, annotate_text, sequence, disarmed_time,
                   polls>>

\* variant: low free space is printed but not raised
SpaceCheckWarnOnly ==
    /\ pc = "space_check"
    /\ \/ \E f \in FreeSamples :
            /\ free' = f
            /\ IF LowFreeSpace(f)
               THEN /\ log' = Append(log, Ev("space_check", "low", f, <<>>, 0))
                    /\ Continue("pir_poll")
               ELSE /\ log' = Append(log, Ev("space_check", "ok", f, <<>>, 0))
                    /\ Continue("pir_poll")
       \/ /\ Unwind("KeyboardInterrupt", "interrupt")
          /\ free' = NoReading
          /\ log' = log
    /\ transport' = "none"
    /\ UNCHANGED <<camera, gpio, armed, data, now, armed_time, update_time,
                   detection_time, annotate_text, sequence, disarmed_time,
                   polls, ticks>>

\* if disk_usage(DIRECTORY)[2]/1000000000 <= 5: raise Exception
SpaceCheck ==
    /\ pc = "space_check"
    /\ \/ \E f \in FreeSamples :
            /\ free' = f
            /\ IF LowFreeSpace(f)
               THEN /\ log' = Append(log, Ev("space_check", "low", f, <<>>, 0))
                    /\ Unwind("Exception", "lowspace")
               ELSE /\ log' = Append(log, Ev("space_check", "ok", f, <<>>, 0))
                    /\ Continue("pir_poll")
       \/ /\ Unwind("KeyboardInterrupt", "interrupt")
          /\ free' = NoReading
          /\ log' = log
    /\ transport' = "none"
    /\ UNCHANGED <<camera, gpio, armed, data, now, armed_time, update_time,
                   detection_time, annotate_text, sequence, disarmed_time,
                   polls, ticks>>

\* variant: the teardown does not look at `armed`
NotArmedIgnored(a) == FALSE

\* if not armed
NotArmed(a) == ~a

\* finally: camera.close(); GPIO.cleanup(); if not armed: print("Cancelled")
\* else: disarmed_time = ...
Teardown ==
    /\ pc = "finally"
    /\ camera' = "closed"
    /\ gpio' = "clean"
    /\ IF NotArmed(armed)
       THEN /\ log' = log \o <<Note("close", camera), Note("cleanup", gpio),
                               Note("print", "Cancelled")>>
            /\ disarmed_time' = disarmed_time
            /\ pc' = IF pending = "none" THEN "exit" ELSE "uncaught"
       ELSE /\ log' = log \o <<Note("close", camera), Note("cleanup", gpio)>>
            /\ disarmed_time' =
                Strftime(<<"*", "*", "*", " ", "D", "I", "S", "A", "R", "M", "E", "D", " ", "*", "*", "*", " ">>, now)
            /\ pc' = "disarm_send"
    /\ free' = NoReading
    /\ transport' = "none"
    /\ UNCHANGED <<armed, data, now, armed_time, update_time, detection_time,
                   annotate_text, sequence, pending, cause, polls,
                   ticks>>

\* the disarm notification inside finally: try/except Exception only
DisarmSend ==
    /\ pc = "disarm_send"
    /\ \E t \in TransportOutcomes(<<>>) :
        LET r == send_mail(disarmed_time, disarmed_time, <<>>, t)
        IN  /\ Elapsed(t) > 0 => ticks < MaxTicks
            /\ ticks' = IF Elapsed(t) > 0 THEN ticks + 1 ELSE ticks
            /\ transport' = t
            /\ now' = now + Elapsed(t)
            /\ log' = Append(log, Ev("mail", "disarmed", disarmed_time, <<>>, 0))
            /\ IF r = "return" \/ CallSiteCatches(r)
               THEN /\ pending' = pending
                    /\ pc' = IF pending = "none" THEN "exit" ELSE "uncaught"
               ELSE /\ pending' = r
                    /\ pc' = "uncaught"
    /\ free' = NoReading
    /\ UNCHANGED <<camera, gpio, armed, data, armed_time, update_time,
                   detection_time, annotate_text, sequence, disarmed_time,
                   cause, polls>>

Next ==
    \/ Warmup
    \/ WifiCheck
    \/ DatetimeCheck
    \/ Preview
    \/ Activation
    \/ ArmedSend
    \/ Tick
    \/ ScheduleCheck
    \/ RetriggerSleep
    \/ StatusSend
    \/ PirPoll
    \/ Capture
    \/ DetectionSend
    \/ SpaceCheck
    \/ Teardown
    \/ DisarmSend

Spec == Init /\ [][Next]_vars


(***************************************************************************)
(* Reading the history                                                     *)
(***************************************************************************)
Events(op) == {i \in DOMAIN log : log[i].op = op}

EventsOf(op, kind) == {i \in DOMAIN log : log[i].op = op /\ log[i].kind = kind}

Mails(kind) == EventsOf("mail", kind)

ArmedReached == Events("arming_delay") # {}

Finished == pc \in {"exit", "uncaught"}

TerminalPaths == {"wifi", "clock", "lowspace", "capture", "interrupt"}

(***************************************************************************)
(* C1: on every terminal path of a run (WiFi detected up, clock rejected,  *)
(* low free space, capture failure, Ctrl+C) the teardown runs exactly      *)
(* once: a run that has ended has closed the camera handle once and        *)
(* cleaned up the pins once.                                               *)
(***************************************************************************)
C1_TeardownOnEveryExit ==
    Finished =>
        /\ Cardinality(EventsOf("close", "open")) = 1
        /\ Cardinality(EventsOf("cleanup", "setup")) = 1
        /\ camera = "closed"
        /\ gpio = "clean"

\* What holds of C1: whichever way the body of the try block is left, the
\* finally block closes the camera once and cleans the pins once, and
\* neither is ever done twice.
TeardownOnceInsideTry ==
    /\ Cardinality(Events("close")) <= 1
    /\ Cardinality(Events("cleanup")) <= 1
    /\ cause # "none" => cause \in TerminalPaths
    /\ (cause \in TerminalPaths /\ pc # "finally") =>
            /\ Cardinality(EventsOf("close", "open")) = 1
            /\ Cardinality(EventsOf("cleanup", "setup")) = 1
            /\ camera = "closed"
            /\ gpio = "clean"

(***************************************************************************)
(* C2: a finished run has attempted the disarm notification exactly once   *)
(* if the arming delay completed and not at all otherwise; a run that ends *)
(* before arming prints "Cancelled" instead; no run attempts it twice or   *)
(* attempts it without having armed.                                       *)
(***************************************************************************)
C2_DisarmIffArmed ==
    LET d == Cardinality(Mails("disarmed"))
        c == Cardinality(EventsOf("print", "Cancelled"))
    IN  /\ d <= 1
        /\ d = 1 => ArmedReached
        /\ Finished => d = (IF ArmedReached THEN 1 ELSE 0)
        /\ (Finished /\ cause \in TerminalPaths) =>
                c = (IF ArmedReached THEN 0 ELSE 1)

C2_Witness ==
    /\ Finished
    /\ cause = "lowspace"
    /\ Cardinality(Mails("disarmed")) = 1

(***************************************************************************)
(* C3: at each of the four call sites, a send_mail that fails in the       *)
(* transport (server unreachable, timeout, TLS failure, login failure,     *)
(* unreadable attachment) leaves the script at the same next step as a     *)
(* send that succeeds, with no exception propagating.                      *)
(***************************************************************************)
TransportFailures == {"unreachable", "timeout", "tls", "login", "attachment"}

AfterSend(site) ==
    CASE site = "armed_send" -> "schedule_check"
      [] site = "status_send" -> "pir_poll"
      [] site = "detection_send" -> "space_check"
      [] site = "disarm_send" -> "exit"

SendSites == {"armed_send", "status_send", "detection_send", "disarm_send"}

C3_SendNeverSurfaces ==
    [][ (pc \in SendSites /\ transport' \in TransportFailures \cup {"sent"})
        => (/\ pc' = AfterSend(pc)
            /\ pending' = "none"
            /\ cause' = cause) ]_vars

C3_Witness ==
    /\ pc = "space_check"
    /\ transport = "attachment"
    /\ cause = "none"


(***************************************************************************)
(* C4: every GPIO read of 1 is followed by exactly one capture_sequence    *)
(* call, and every capture that returns by exactly one detection mail,     *)
(* before anything else happens; captures and detection mails occur        *)
(* nowhere else, so a read of 0 produces none.  Whenever the script is     *)
(* back at the sensor or the clock, the reads of 1, the bursts and the     *)
(* detection mails are equally many: N consecutive reads of 1 give N       *)
(* bursts and N mails.                                                     *)
(***************************************************************************)
IsEv(i, op, kind) == i \in DOMAIN log /\ log[i].op = op /\ log[i].kind = kind

C4_OneCyclePerActivePoll ==
    /\ \A i \in DOMAIN log :
        /\ IsEv(i, "poll", "active") =>
                IF i = Len(log) THEN pc = "capture"
                ELSE log[i + 1].op = "capture"
        /\ log[i].op = "capture" => IsEv(i - 1, "poll", "active")
        /\ IsEv(i, "capture", "ok") =>
                IF i = Len(log) THEN pc = "detection_send"
                ELSE IsEv(i + 1, "mail", "detection")
        /\ IsEv(i, "mail", "detection") => IsEv(i - 1, "capture", "ok")
    /\ pc \in {"pir_poll", "schedule_check", "retrigger_sleep", "status_send"} =>
        /\ Cardinality(EventsOf("poll", "active"))
                = Cardinality(EventsOf("capture", "ok"))
        /\ Cardinality(EventsOf("poll", "active"))
                = Cardinality(Mails("detection"))

\* two reads of 1 in a row, each with its burst and its mail
C4_Witness ==
    /\ pc = "pir_poll"
    /\ Cardinality(Mails("detection")) = 2
    /\ \E i \in DOMAIN log :
        /\ IsEv(i, "poll", "active")
        /\ IsEv(i + 3, "space_check", "ok")
        /\ IsEv(i + 4, "poll", "active")

(***************************************************************************)
(* C5: a free-space reading ends monitoring exactly when it is at most     *)
(* 5,000,000,000 bytes: 5,000,000,000 ends it, 5,000,000,001 does not.     *)
(***************************************************************************)
\* <<hi, lo>> is at most 5,000,000,000 = <<50000, 0>> bytes
AtMostFiveBillion(x) == x[1] < 50000 \/ (x[1] = 50000 /\ x[2] = 0)

C5_CutoffInclusive ==
    free # NoReading =>
        IF AtMostFiveBillion(free)
        THEN pc = "finally" /\ cause = "lowspace"
        ELSE pc = "pir_poll" /\ cause = "none"

\* a reading of 5,000,000,001 let the loop go on, a later one of
\* 5,000,000,000 ended it
C5_Witness ==
    /\ free = <<50000, 0>>
    /\ pc = "finally"
    /\ \E i \in DOMAIN log :
        IsEv(i, "space_check", "ok") /\ log[i].text = <<50000, 1>>

(***************************************************************************)
(* C6: no clock second is matched against TIMES twice, and every status    *)
(* mail follows a match of its own: at most one status mail per            *)
(* occurrence of a TIMES entry.                                            *)
(***************************************************************************)
C6_OnePingPerSecond ==
    /\ \A i, j \in EventsOf("schedule_check", "match") :
            log[i].at = log[j].at => i = j
    /\ \A i \in Mails("status") :
            /\ IsEv(i - 1, "sleep", "retrigger")
            /\ IsEv(i - 2, "schedule_check", "match")
            /\ In(log[i - 2].text, TIMES)

\* a status mail was sent and the clock was consulted again afterwards
C6_Witness ==
    \E i \in Mails("status") : \E j \in Events("schedule_check") : j > i

(***************************************************************************)
(* C7: after a free-space reading at or below the cutoff nothing but the   *)
(* teardown happens: no GPIO read, capture, detection mail, status mail or *)
(* clock check.                                                            *)
(***************************************************************************)
TeardownEvent(e) ==
    \/ e.op \in {"close", "cleanup"}
    \/ e.op = "mail" /\ e.kind = "disarmed"

C7_LowSpaceTerminal ==
    \A i \in EventsOf("space_check", "low") :
        /\ pc \in {"finally", "disarm_send", "exit", "uncaught"}
        /\ \A j \in DOMAIN log : j > i => TeardownEvent(log[j])

C7_Witness ==
    /\ pc = "exit"
    /\ EventsOf("space_check", "low") # {}
    /\ Mails("disarmed") # {}

(***************************************************************************)
(* C8: when WiFi is up or the operator answers "n", the run never arms: no *)
(* preview, arming delay, mail, GPIO read, clock check or capture occurs   *)
(* and `armed` stays False.  An answer other than y/n is followed only by  *)
(* another prompt (or the teardown after Ctrl+C), and the preview starts   *)
(* only right after an answer of "y".                                      *)
(***************************************************************************)
MonitoringOps ==
    {"preview", "arming_delay", "mail", "poll", "schedule_check", "sleep",
     "capture", "space_check"}

C8_PreconditionAbort ==
    /\ [](/\ cause \in {"wifi", "clock"} =>
                /\ ~armed
                /\ \A i \in DOMAIN log : log[i].op \notin MonitoringOps
          /\ \A i \in Events("preview") :
                IsEv(i - 1, "prompt", "y") /\ IsEv(1, "wifi_check", "down")
          /\ \A i \in EventsOf("prompt", "n") \cup EventsOf("wifi_check", "up") :
                \A j \in DOMAIN log : j > i => log[j].op \notin MonitoringOps)
    /\ [][ (pc = "datetime_check" /\ data' \notin {"y", "n"} /\ cause' = "none")
            => (pc' = "datetime_check" /\ ~armed' /\ log' = log) ]_vars

C8_Witness ==
    /\ pc = "exit"
    /\ cause = "clock"
    /\ data = "n"
    /\ ~armed

PathMatches(path, stamp, k) ==
    LET n == Len(out_directory)
        m == Len(stamp)
    IN  /\ Len(path) = n + m + 6
        /\ SubSeq(path, 1, n) = out_directory
        /\ \A c \in 1..m :
                path[n + c] = (IF stamp[c] = ":" THEN "-" ELSE stamp[c])
        /\ path[n + m + 1] = "_"
        /\ path[n + m + 2] = Digits[k + 1]
        /\ SubSeq(path, n + m + 3, n + m + 6) = <<".", "j", "p", "g">>

C10_BurstPaths ==
    \A i \in EventsOf("capture", "ok") :
        LET stamp == log[i].text
            files == log[i].files
        IN  /\ Len(files) = 5
            /\ \A k \in 1..5 : PathMatches(files[k], stamp, k)
            /\ \E c \in DOMAIN stamp : stamp[c] = ":"
            /\ Len(stamp) = 29
            /\ SubSeq(stamp, 22, 29) = StrfHMS(log[i - 1].at)
            /\ IsEv(i + 1, "mail", "detection") =>
                    /\ log[i + 1].text = stamp
                    /\ log[i + 1].files = files

C10_Witness ==
    /\ pc = "space_check"
    /\ Len(sequence) = 5
    /\ annotate_text = detection_time
    /\ \E i \in EventsOf("capture", "ok") : log[i].at > log[i - 1].at


(***************************************************************************)
(* C11: a detection cycle is capture, then the mail with exactly the paths *)
(* of that capture, then the free-space read, with nothing in between; the *)
(* mail is attempted only after capture_sequence has returned with all 5   *)
(* files, and the pin is never read while a capture or its mail is still   *)
(* outstanding.                                                            *)
(***************************************************************************)
C11_CycleSequential ==
    /\ \A i \in Mails("detection") :
            /\ IsEv(i - 1, "capture", "ok")
            /\ Len(log[i - 1].files) = 5
            /\ log[i].files = log[i - 1].files
            /\ IF i = Len(log)
               THEN pc \in {"space_check", "finally", "disarm_send", "exit"}
               ELSE log[i + 1].op \in {"space_check", "close"}
    /\ \A i \in Events("space_check") : IsEv(i - 1, "mail", "detection")
    /\ \A i \in Events("poll") :
            i > 1 => ~ (\/ log[i - 1].op \in {"poll", "capture"}
                        \/ IsEv(i - 1, "mail", "detection"))
    /\ pc = "pir_poll" =>
            Cardinality(EventsOf("capture", "ok")) = Cardinality(Events("space_check"))

\* a second read of the pin, after a complete first cycle
C11_Witness ==
    \E i \in DOMAIN log :
        /\ IsEv(i, "capture", "ok")
        /\ IsEv(i + 1, "mail", "detection")
        /\ IsEv(i + 2, "space_check", "ok")
        /\ i + 3 \in Events("poll")

(***************************************************************************)
(* C12: when capture_sequence raises, the run is over: no detection mail   *)
(* for it, no second capture, no further read of the pin; only the         *)
(* teardown follows, and a finished run has attempted the disarm mail.     *)
(***************************************************************************)
C12_CaptureFailureFatal ==
    \A i \in EventsOf("capture", "raised") :
        /\ cause = "capture"
        /\ pc \in {"finally", "disarm_send", "exit", "uncaught"}
        /\ \A j \in DOMAIN log : j > i => TeardownEvent(log[j])
        /\ Finished => Cardinality(Mails("disarmed")) = 1

\* the capture failed after 4 of the 5 files, and the run has ended
C12_Witness ==
    /\ pc = "exit"
    /\ Mails("disarmed") # {}
    /\ \E i \in EventsOf("capture", "raised") : Len(log[i].files) = 4

(***************************************************************************)
(* C13: Ctrl+C at any point after the pins and the camera have been        *)
(* acquired is caught at the top level and goes through the teardown: a    *)
(* run ended by Ctrl+C has closed the camera once and cleaned up the pins  *)
(* once, and no KeyboardInterrupt is left propagating.                     *)
(***************************************************************************)
Interrupted == cause = "interrupt" \/ pending = "KeyboardInterrupt"

C13_InterruptTornDown ==
    (Finished /\ Interrupted) =>
        /\ Cardinality(EventsOf("close", "open")) = 1
        /\ Cardinality(EventsOf("cleanup", "setup")) = 1
        /\ pending = "none"

(***************************************************************************)
(* C14: the disarm mail of the teardown never raises out of it: once it    *)
(* has been attempted, the script has exited normally, whatever happened   *)
(* during the attempt.                                                     *)
(***************************************************************************)
C14_DisarmNeverRaises ==
    Mails("disarmed") # {} => (pc = "exit" /\ pending = "none")


(***************************************************************************)
(* C15: the schedule has no catch-up.  Each evaluation of line 168         *)
(* compares only the second at which it runs with TIMES, a status mail     *)
(* follows only such a match, and line 168 is never evaluated inside a     *)
(* detection cycle or between two iterations of the inner loop.  So a      *)
(* schedule entry that goes by during a cycle is lost: the witness is a    *)
(* finished run in which the clock went through an entry between a         *)
(* capture and a later read of the pin, without any status mail.           *)
(***************************************************************************)
C15_NoCatchUp ==
    /\ \A i \in Events("schedule_check") :
            /\ (log[i].kind = "match") <=> In(log[i].text, TIMES)
            /\ i > 1 => /\ ~ IsEv(i - 1, "poll", "active")
                        /\ log[i - 1].op # "capture"
                        /\ ~ IsEv(i - 1, "mail", "detection")
                        /\ log[i - 1].op # "space_check"
    /\ \A i \in Mails("status") : IsEv(i - 2, "schedule_check", "match")

C15_Witness ==
    /\ Finished
    /\ ArmedReached
    /\ Mails("status") = {}
    /\ \E i \in EventsOf("capture", "ok") :
       \E j \in Events("poll") :
            /\ j > i
            /\ \E t \in (log[i].at + 1) .. (log[j].at - 1) :
                    In(StrfHMS(t), TIMES)


(***************************************************************************)
(* C16: no file path is written by two captures of one run, so a later     *)
(* burst never overwrites an image of an earlier one.                      *)
(***************************************************************************)
C16_PathsNeverReused ==
    \A i \in Events("capture") :
    \A j \in Events("capture") :
        i < j => \A a \in DOMAIN log[i].files :
                 \A b \in DOMAIN log[j].files :
                        log[i].files[a] # log[j].files[b]


(***************************************************************************)
(* C17: disk_usage is read only at the end of a detection cycle: each read *)
(* follows an active poll, a complete burst and the detection mail of that *)
(* burst.  It is not read at arming nor after an inactive poll, so a run   *)
(* without motion never reads it and never ends for lack of space.         *)
(***************************************************************************)
C17_GuardOnlyAfterCycle ==
    /\ \A i \in Events("space_check") :
            /\ IsEv(i - 3, "poll", "active")
            /\ IsEv(i - 2, "capture", "ok")
            /\ Len(log[i - 2].files) = BurstSize
            /\ IsEv(i - 1, "mail", "detection")
            /\ log[i - 1].files = log[i - 2].files
    /\ free # NoReading => (log # <<>> /\ log[Len(log)].op = "space_check")
    /\ cause = "lowspace" => EventsOf("space_check", "low") # {}
    /\ EventsOf("poll", "active") = {} =>
            (Events("space_check") = {} /\ cause # "lowspace")

\* a run that read the pin low, went round the outer loop, and was later
\* ended by the free-space guard of a detection cycle
C17_Witness ==
    /\ pc = "exit"
    /\ cause = "lowspace"
    /\ \E i \in EventsOf("poll", "inactive") :
       \E j \in EventsOf("space_check", "low") : i < j

(***************************************************************************)
(* C18: Ctrl+C during the armed, a status or a detection send_mail is not  *)
(* swallowed by "except Exception" at the call site: control goes to the   *)
(* teardown, nothing of the monitoring loop runs any more, and the         *)
(* finished run has attempted the disarm mail exactly once.                *)
(***************************************************************************)
ArmedSendSites == {"armed_send", "status_send", "detection_send"}

InterruptedSends ==
    {i \in Events("mail") : /\ log[i].kind \in {"armed", "status", "detection"}
                            /\ cause = "interrupt"
                            /\ IsEv(i + 1, "close", "open")}

====
